---- MODULE Spec2Model ----
(***************************************************************************)
(* TorchMAML (deepchem/metalearning/torch_maml.py): the meta-training      *)
(* loop, the fine-tuning entry point and the checkpoint store, over a      *)
(* learner with two scalar parameters p and q and the quadratic loss       *)
(* (p - t)^2 [+ (q - t)^2 when the batch uses q].  Tensor values are exact *)
(* rationals <<numerator, denominator>>.                                   *)
(***************************************************************************)
EXTENDS Integers, Sequences, FiniteSets, TLC

VARIABLES
    cfg,            \* constructor arguments: learning_rate, optimization_steps, meta_batch_size, _model_dir_is_temp
    params,         \* tensor objects: params[0] are the tensors the two optimizers were built on,
                    \* params[1] the tensors made by the latest torch.load; each has val and grad
    learner,        \* learner.__dict__: ref (which tensor objects it holds) and the selected task
    optimizer,      \* state of _pytorch_optimizer (momentum buffers)
    task_optimizer, \* state of _pytorch_task_optimizer (its param group)
    global_step,    \* _global_step
    dir_exists,     \* os.path.exists(model_dir)
    files,          \* the files of model_dir: base name -> contents
    now,            \* time.time()
    frame,          \* the running fit call: pc, steps, i, j, its arguments and locals
    err,            \* the exception the latest call raised, or "none"
    call,           \* history: the latest call, whether it was to restore first, whether the state had changed since the latest save
    saves,          \* history: number of completed save_checkpoint calls
    last_saved,     \* history: the data handed to torch.save by the latest save_checkpoint
    saved_at,       \* history: the time at which the latest save_checkpoint completed
    keeps,          \* history: the max_checkpoints_to_keep values used so far
    work            \* history: number of gradient computations made (meta-losses and fine-tuning steps)

vars == <<cfg, params, learner, optimizer, task_optimizer, global_step, dir_exists,
          files, now, frame, err, call, saves, last_saved, saved_at, keeps, work>>

----------------------------------------------------------------------------
\* Bounds of the model.

MaxKeep == 2          \* largest max_checkpoints_to_keep of Spec and SpecFit
MaxSaves == 3         \* completed saves per behaviour of Spec
MaxWork == 3          \* gradient computations per behaviour of Spec and SpecMeta
MaxNow == 4           \* the clock stops advancing here
MaxInterval == 2      \* largest checkpoint_interval, and the longest pass of fit's loop
MaxFitSteps == 2      \* largest steps argument of fit
MaxMetaBatch == 3     \* largest meta_batch_size of SpecMeta
MaxTrainSteps == 2    \* largest optimization_steps argument of train_on_current_task
MaxKeepRot == 10      \* largest max_checkpoints_to_keep of SpecRot (a two-digit slot)
ExtraSavesRot == 1    \* SpecRot saves up to MaxKeepRot + ExtraSavesRot times
NTasks == 3           \* the learner's tasks, with targets 1 .. NTasks
MaxKeepRing == 3      \* largest max_checkpoints_to_keep of SpecRing
MaxSavesRing == 5     \* completed saves per behaviour of SpecRing

----------------------------------------------------------------------------
\* Exact arithmetic on tensor values.

RECURSIVE Gcd(_, _)
Gcd(a, b) == IF b = 0 THEN a ELSE Gcd(b, a % b)

Abs(x) == IF x < 0 THEN -x ELSE x

Rat(n, d) == LET g == Gcd(Abs(n), d) IN <<n \div g, d \div g>>

RInt(k) == <<k, 1>>

RAdd(a, b) == Rat(a[1] * b[2] + b[1] * a[2], a[2] * b[2])

RSub(a, b) == Rat(a[1] * b[2] - b[1] * a[2], a[2] * b[2])

RMul(a, b) == Rat(a[1] * b[1], a[2] * b[2])

\* A gradient that is absent (Python None).
None == <<>>

Names == {"p", "q"}

NoGrad == [x \in Names |-> None]

----------------------------------------------------------------------------
\* File names as sequences of character codes.

CheckpointPrefix == <<99, 104, 101, 99, 107, 112, 111, 105, 110, 116>>

DotPt == <<46, 112, 116>>

TempName == <<116, 101, 109, 112, 95>> \o CheckpointPrefix \o DotPt

RECURSIVE Digits(_)
Digits(n) == IF n < 10 THEN <<48 + n>> ELSE Digits(n \div 10) \o <<48 + (n % 10)>>

\* CheckpointName with a character that sorts after the digits behind the number
CheckpointName_underscore(k) == CheckpointPrefix \o Digits(k) \o <<95>> \o DotPt

\* 'checkpoint%d.pt' % (i + 1), for the slot number k = i + 1
CheckpointName(k) == CheckpointPrefix \o Digits(k) \o DotPt

StartsWith(s, pre) == Len(s) >= Len(pre) /\ SubSeq(s, 1, Len(pre)) = pre

EndsWith(s, suf) == Len(s) >= Len(suf) /\ SubSeq(s, Len(s) - Len(suf) + 1, Len(s)) = suf

\* Python's order on str: the first differing character decides, a proper prefix is less
RECURSIVE LexLessFrom(_, _, _)
LexLessFrom(a, b, i) ==
    IF i > Len(a) THEN i <= Len(b)
    ELSE IF i > Len(b) THEN FALSE
    ELSE IF a[i] = b[i] THEN LexLessFrom(a, b, i + 1)
    ELSE a[i] < b[i]

LexLess(a, b) == LexLessFrom(a, b, 1)

RECURSIVE Sorted(_)
Sorted(S) ==
    IF S = {} THEN <<>>
    ELSE LET m == CHOOSE x \in S : \A y \in S \ {x} : LexLess(x, y)
         IN <<m>> \o Sorted(S \ {m})

IsCheckpoint(f) == StartsWith(f, CheckpointPrefix) /\ EndsWith(f, DotPt)

\* get_checkpoints(model_dir): sorted(os.listdir), filtered.  The paths differ from the
\* base names by the common prefix os.path.join adds, which keeps their order.
get_checkpoints(fs) == SelectSeq(Sorted(DOMAIN fs), IsCheckpoint)

Range(s) == {s[i] : i \in DOMAIN s}

----------------------------------------------------------------------------
\* The directory.

NoFiles == [n \in {} |-> 0]

Write(fs, name, data) == [n \in DOMAIN fs \cup {name} |-> IF n = name THEN data ELSE fs[n]]

Remove(fs, name) == [n \in DOMAIN fs \ {name} |-> fs[n]]

Rename(fs, src, dst) ==
    [n \in (DOMAIN fs \ {src}) \cup {dst} |-> IF n = dst THEN fs[src] ELSE fs[n]]

----------------------------------------------------------------------------
\* The learner: two scalar parameters, tasks 1 .. NTasks selected in a cycle, a batch
\* [t, useQ] of the selected task, loss (p - t)^2 + (IF useQ THEN (q - t)^2 ELSE 0).

select_task(task) == (task % NTasks) + 1

\* noises: how far a batch's target may lie above the task's
Batches(task, noises, useQs) == [t : {task + e : e \in noises}, useQ : useQs]

\* d loss / d entry at the values vals; None for an entry the loss does not use
LossGrad(vals, batch) ==
    [x \in Names |->
        IF x = "p" \/ batch.useQ
        THEN RMul(RInt(2), RSub(vals[x], RInt(batch.t)))
        ELSE None]

----------------------------------------------------------------------------
\* Autograd and the optimizers.

\* loss.backward(): each gradient is added to the .grad of its leaf tensor
Accumulate(grad, g) ==
    [x \in Names |->
        IF g[x] = None THEN grad[x]
        ELSE IF grad[x] = None THEN g[x]
        ELSE RAdd(grad[x], g[x])]

\* v if g is None else v - self.learning_rate * g
Update(v, g, lr) == IF g = None THEN v ELSE RSub(v, RMul(lr, g))

\* The tensor objects both optimizers were constructed on, learner.variables at
\* construction: params[OptimizerRef].
OptimizerRef == 0

\* optimizer.zero_grad() on the tensors the optimizer was built on: every .grad becomes
\* None (set_to_none, the default of torch 2)
zero_grad(ps) == [ps EXCEPT ![OptimizerRef].grad = NoGrad]

\* The meta-optimizer passed to the constructor: gradient descent with momentum.
OuterLr == Rat(1, 2)

Momentum == Rat(1, 2)

NewBuffer(buf, g) ==
    IF g = None THEN buf
    ELSE IF buf = None THEN g
    ELSE RAdd(RMul(Momentum, buf), g)

\* self._pytorch_optimizer.step(): acts on params[OptimizerRef], skips entries without
\* a gradient
optimizer_step(ps, opt) ==
    LET v == ps[OptimizerRef]
        buf == [x \in Names |-> NewBuffer(opt.momentum_buffer[x], v.grad[x])]
    IN [params |-> [ps EXCEPT ![OptimizerRef].val =
                        [x \in Names |->
                            IF v.grad[x] = None THEN v.val[x]
                            ELSE RSub(v.val[x], RMul(OuterLr, buf[x]))]],
        optimizer |-> [momentum_buffer |-> buf]]

\* self._pytorch_task_optimizer.step(): plain gradient descent on params[OptimizerRef]
task_optimizer_step(ps, topt) ==
    [ps EXCEPT ![OptimizerRef].val =
        [x \in Names |-> Update(ps[OptimizerRef].val[x], ps[OptimizerRef].grad[x], topt.lr)]]

----------------------------------------------------------------------------
\* _compute_meta_loss

\* The loop of lines 238-247 with k iterations left.  upd: the values of
\* updated_variables; leaf: updated_variables are still the variables themselves;
\* grad: the .grad of the variables.  i.grad of a tensor computed from others is None,
\* and None.clone() raises AttributeError.
RECURSIVE InnerLoop(_, _, _, _, _, _)
InnerLoop(k, upd, leaf, grad, batch, lr) ==
    IF k = 0 THEN [raised |-> FALSE, updated |-> upd, grad |-> grad]
    ELSE LET g1 == Accumulate(grad, LossGrad(upd, batch))
             gradients == IF leaf THEN g1 ELSE NoGrad
         IN IF \E x \in Names : gradients[x] = None
            THEN [raised |-> TRUE, updated |-> upd, grad |-> g1]
            ELSE InnerLoop(k - 1, [x \in Names |-> Update(upd[x], gradients[x], lr)],
                           FALSE, g1, batch, lr)

\* variables: one tensor object [val, grad]; the result's grad is the .grad the call
\* leaves on it.
compute_meta_loss(variables, inputs, inputs2, steps, lr) ==
    LET inner == InnerLoop(steps, variables.val, TRUE, variables.grad, inputs, lr)
        g2 == Accumulate(inner.grad, LossGrad(inner.updated, inputs2))
    IN IF inner.raised
       THEN [raised |-> TRUE, grad |-> inner.grad, updated |-> inner.updated,
             meta_gradients |-> NoGrad]
       ELSE IF \E x \in Names : g2[x] = None
       THEN [raised |-> TRUE, grad |-> g2, updated |-> inner.updated,
             meta_gradients |-> NoGrad]
       ELSE [raised |-> FALSE, grad |-> g2, updated |-> inner.updated,
             meta_gradients |-> g2]

----------------------------------------------------------------------------
\* The object's state as one record, for the methods that call each other.

Cur == [params |-> params, learner |-> learner, optimizer |-> optimizer,
        task_optimizer |-> task_optimizer, global_step |-> global_step, err |-> "none"]

Set(m) ==
    /\ params' = m.params
    /\ learner' = m.learner
    /\ optimizer' = m.optimizer
    /\ task_optimizer' = m.task_optimizer
    /\ global_step' = m.global_step
    /\ err' = m.err

\* what predict_on_batch evaluates: self.learner.variables
Exposed(m) == m.params[m.learner.ref].val

\* the dict save_checkpoint hands to torch.save
CheckpointData(m) ==
    [model_state_dict |-> [val |-> Exposed(m), task |-> m.learner.task],
     optimizer_state_dict |-> m.optimizer,
     task_optimizer_state_dict |-> m.task_optimizer,
     global_step |-> m.global_step]

\* RotateOps with the renames in ascending order (range not reversed)
RotateOps_ascending(keep) ==
    <<[op |-> "save", src |-> TempName, dst |-> TempName],
      [op |-> "remove", src |-> CheckpointName(keep), dst |-> CheckpointName(keep)]>>
    \o [k \in 1 .. (keep - 1) |->
          [op |-> "rename", src |-> CheckpointName(k), dst |-> CheckpointName(k + 1)]]
    \o <<[op |-> "place", src |-> TempName, dst |-> CheckpointName(1)]>>

\* The file operations of save_checkpoint(max_checkpoints_to_keep = keep), in order.
RotateOps(keep) ==
    <<[op |-> "save", src |-> TempName, dst |-> TempName],
      [op |-> "remove", src |-> CheckpointName(keep), dst |-> CheckpointName(keep)]>>
    \o [k \in 1 .. (keep - 1) |->
          [op |-> "rename", src |-> CheckpointName(keep - k),
           dst |-> CheckpointName(keep - k + 1)]]
    \o <<[op |-> "place", src |-> TempName, dst |-> CheckpointName(1)]>>

ApplyOp(fs, o, content) ==
    CASE o.op = "save" -> Write(fs, o.dst, content)
      [] o.op = "remove" -> IF o.src \in DOMAIN fs THEN Remove(fs, o.src) ELSE fs
      [] o.op = "rename" -> IF o.src \in DOMAIN fs THEN Rename(fs, o.src, o.dst) ELSE fs
      [] o.op = "place" -> Rename(fs, o.src, o.dst)

\* the directory after the first n of the operations ops
RECURSIVE RunOps(_, _, _, _)
RunOps(fs, ops, content, n) ==
    IF n = 0 THEN fs
    ELSE ApplyOp(RunOps(fs, ops, content, n - 1), ops[n], content)

\* save_checkpoint: the directory it leaves (os.makedirs when the directory is missing)
save_checkpoint(m, fs, exists, keep, seq) ==
    LET ops == RotateOps(keep)
    IN RunOps(IF exists THEN fs ELSE NoFiles, ops,
              [data |-> CheckpointData(m), seq |-> seq], Len(ops))

\* LastCheckpoint taking the last name of the sorted list
LastCheckpoint_last(fs) ==
    Sorted(Range(get_checkpoints(fs)))[Len(Sorted(Range(get_checkpoints(fs))))]

\* last_checkpoint[0] of restore
LastCheckpoint(fs) == Head(Sorted(Range(get_checkpoints(fs))))

\* restore, lines 260-265: the loaded dict replaces learner.__dict__, so the learner
\* holds new tensors; the optimizers load their state and keep the tensors they had
load(m, data) ==
    [params |-> [m.params EXCEPT ![1] =
                    [val |-> data.model_state_dict.val, grad |-> NoGrad]],
     learner |-> [ref |-> 1, task |-> data.model_state_dict.task],
     optimizer |-> data.optimizer_state_dict,
     task_optimizer |-> data.task_optimizer_state_dict,
     global_step |-> data.global_step,
     err |-> "none"]

\* restore without the check for an empty list, returning silently
restore_silent(m, fs, exists) ==
    IF ~exists THEN [m EXCEPT !.err = "FileNotFoundError"]
    ELSE IF Len(Sorted(Range(get_checkpoints(fs)))) = 0
    THEN [m EXCEPT !.err = "none"]
    ELSE load(m, fs[Head(Sorted(Range(get_checkpoints(fs))))].data)

\* restore; os.listdir raises when the directory is missing
restore(m, fs, exists) ==
    IF ~exists THEN [m EXCEPT !.err = "FileNotFoundError"]
    ELSE IF Len(Sorted(Range(get_checkpoints(fs)))) = 0
    THEN [m EXCEPT !.err = "ValueError"]
    ELSE load(m, fs[LastCheckpoint(fs)].data)

----------------------------------------------------------------------------
\* train_on_current_task: the loop of lines 280-286 over the batches get_batch returns.
\* ref: the tensors self.learner.variables holds.

RECURSIVE TrainLoop(_, _, _, _)
TrainLoop(ps, ref, topt, batches) ==
    IF batches = <<>> THEN ps
    ELSE LET z == zero_grad(ps)
             g == [z EXCEPT ![ref].grad =
                       Accumulate(z[ref].grad, LossGrad(z[ref].val, Head(batches)))]
         IN TrainLoop(task_optimizer_step(g, topt), ref, topt, Tail(batches))

train_on_current_task(m, batches) ==
    [m EXCEPT !.params = TrainLoop(m.params, m.learner.ref, m.task_optimizer, batches)]

\* ShouldCheckpoint with > for >=
ShouldCheckpoint_strict(i, steps, t, checkpoint_time, checkpoint_interval) ==
    i = steps - 1 \/ t > checkpoint_time + checkpoint_interval

\* fit, line 228: i == steps - 1 or time.time() >= checkpoint_time + checkpoint_interval
ShouldCheckpoint(i, steps, t, checkpoint_time, checkpoint_interval) ==
    i = steps - 1 \/ t >= checkpoint_time + checkpoint_interval

\* __del__: shutil.rmtree(self.model_dir) raises when the directory is missing
del_raises(is_temp, exists) == is_temp /\ ~exists

----------------------------------------------------------------------------
\* The state after construction.

IdleFrame ==
    [pc |-> "idle", steps |-> 0, i |-> 0, j |-> 0, keep |-> 0, interval |-> 0,
     start |-> 0, checkpoint_time |-> 0, variables |-> 0, summed |-> NoGrad,
     meta_gradients |-> NoGrad, log |-> <<>>]

NoCall == [name |-> "init", restore |-> FALSE, changed |-> FALSE]

Configs(lrs, steps, sizes, temps) ==
    [learning_rate : lrs, optimization_steps : steps, meta_batch_size : sizes,
     is_temp : temps]

\* params[1] is not referenced before the first load; it starts as a copy of params[0]
InitWith(configs, p0s) ==
    /\ cfg \in configs
    /\ \E p0 \in p0s :
          params = [r \in {0, 1} |->
                      [val |-> [x \in Names |-> IF x = "p" THEN RInt(p0) ELSE RInt(0)],
                       grad |-> NoGrad]]
    /\ learner = [ref |-> 0, task |-> 1]
    /\ optimizer = [momentum_buffer |-> NoGrad]
    /\ task_optimizer = [lr |-> cfg.learning_rate]
    /\ global_step = 0
    /\ dir_exists = TRUE
    /\ files = NoFiles
    /\ now = 0
    /\ frame = IdleFrame
    /\ err = "none"
    /\ call = NoCall
    /\ saves = 0
    /\ last_saved = None
    /\ saved_at = 0
    /\ keeps = {}
    /\ work = 0

----------------------------------------------------------------------------
\* The calls.

\* the state differs from the one the latest save stored
Changed == last_saved # None /\ CheckpointData(Cur) # last_saved

Called(name, r) == call' = [name |-> name, restore |-> r, changed |-> Changed]

\* a save_checkpoint(keep) of the state m at time t, with its history
Saving(m, keep, t) ==
    /\ files' = save_checkpoint(m, files, dir_exists, keep, saves + 1)
    /\ dir_exists' = TRUE
    /\ saves' = saves + 1
    /\ last_saved' = CheckpointData(m)
    /\ saved_at' = t
    /\ keeps' = keeps \cup {keep}

NotSaving == UNCHANGED <<files, dir_exists, saves, last_saved, saved_at, keeps>>

SaveCheckpoint(keep) ==
    /\ frame.pc = "idle"
    /\ Saving(Cur, keep, now)
    /\ Set(Cur)
    /\ Called("save_checkpoint", FALSE)
    /\ UNCHANGED <<cfg, now, frame, work>>

\* save_checkpoint(keep) interrupted after the first n of its file operations, before
\* the next one; the history counts completed saves only
SaveInterrupted(keep, n) ==
    /\ frame.pc = "idle"
    /\ n \in 1 .. (Len(RotateOps(keep)) - 1)
    /\ files' = RunOps(IF dir_exists THEN files ELSE NoFiles, RotateOps(keep),
                       [data |-> CheckpointData(Cur), seq |-> saves + 1], n)
    /\ dir_exists' = TRUE
    /\ Set([Cur EXCEPT !.err = "KeyboardInterrupt"])
    /\ Called("save_checkpoint", FALSE)
    /\ UNCHANGED <<cfg, now, frame, work, saves, last_saved, saved_at, keeps>>

Restore ==
    /\ frame.pc = "idle"
    /\ Set(restore(Cur, files, dir_exists))
    /\ Called("restore", TRUE)
    /\ NotSaving
    /\ UNCHANGED <<cfg, now, frame, work>>

TrainOnCurrentTask(n, r, noises, useQs) ==
    /\ frame.pc = "idle"
    /\ LET m0 == IF r THEN restore(Cur, files, dir_exists) ELSE Cur
       IN IF m0.err # "none"
          THEN /\ Set(m0)
               /\ Called("train_on_current_task", r)
               /\ UNCHANGED work
          ELSE \E batches \in [1 .. n -> Batches(m0.learner.task, noises, useQs)] :
                  /\ Set(train_on_current_task(m0, batches))
                  /\ Called("train_on_current_task", r)
                  /\ work' = work + n
    /\ NotSaving
    /\ UNCHANGED <<cfg, now, frame>>

FitBegin(steps, keep, interval, r) ==
    /\ frame.pc = "idle"
    /\ LET m0 == IF r THEN restore(Cur, files, dir_exists) ELSE Cur
       IN /\ Set(m0)
          /\ frame' = IF m0.err # "none" \/ steps = 0 THEN IdleFrame
                      ELSE [IdleFrame EXCEPT !.pc = "fit", !.steps = steps, !.keep = keep,
                                             !.interval = interval, !.start = now,
                                             !.checkpoint_time = now,
                                             !.variables = m0.learner.ref]
    /\ Called("fit", r)
    /\ NotSaving
    /\ UNCHANGED <<cfg, now, work>>

\* FitTaskOn with the inner loop's updates made in place on the variables
FitTaskOn_inplace(inputs, inputs2) ==
    /\ frame.pc = "fit"
    /\ frame.j < cfg.meta_batch_size
    /\ LET ps1 == IF frame.j = 0 THEN zero_grad(params) ELSE params
           r == compute_meta_loss(ps1[frame.variables], inputs, inputs2,
                                  cfg.optimization_steps, cfg.learning_rate)
       IN /\ params' = [ps1 EXCEPT ![frame.variables] = [val |-> r.updated, grad |-> r.grad]]
          /\ learner' = [learner EXCEPT !.task = select_task(learner.task)]
          /\ err' = IF r.raised THEN "AttributeError" ELSE "none"
          /\ frame' = IF r.raised THEN IdleFrame
                      ELSE [frame EXCEPT
                              !.j = @ + 1,
                              !.meta_gradients = r.meta_gradients,
                              !.summed = IF frame.j = 0 THEN r.meta_gradients
                                         ELSE [x \in Names |->
                                                 RAdd(@[x], r.meta_gradients[x])],
                              !.log = Append(@, [inputs |-> inputs,
                                                 inputs2 |-> inputs2])]
    /\ work' = work + 1
    /\ NotSaving
    /\ UNCHANGED <<cfg, optimizer, task_optimizer, global_step, now, call>>

\* one pass of the loop over j, lines 214-223 (with line 213 before the first), on the
\* batches inputs and inputs2 that get_batch returns
FitTaskOn(inputs, inputs2) ==
    /\ frame.pc = "fit"
    /\ frame.j < cfg.meta_batch_size
    /\ LET ps1 == IF frame.j = 0 THEN zero_grad(params) ELSE params
           r == compute_meta_loss(ps1[frame.variables], inputs, inputs2,
                                  cfg.optimization_steps, cfg.learning_rate)
       IN /\ params' = [ps1 EXCEPT ![frame.variables].grad = r.grad]
          /\ learner' = [learner EXCEPT !.task = select_task(learner.task)]
          /\ err' = IF r.raised THEN "AttributeError" ELSE "none"
          /\ frame' = IF r.raised THEN IdleFrame
                      ELSE [frame EXCEPT
                              !.j = @ + 1,
                              !.meta_gradients = r.meta_gradients,
                              !.summed = IF frame.j = 0 THEN r.meta_gradients
                                         ELSE [x \in Names |->
                                                 RAdd(@[x], r.meta_gradients[x])],
                              !.log = Append(@, [inputs |-> inputs,
                                                 inputs2 |-> inputs2])]
    /\ work' = work + 1
    /\ NotSaving
    /\ UNCHANGED <<cfg, optimizer, task_optimizer, global_step, now, call>>

FitTask(noises, noises2, useQs) ==
    \E inputs \in Batches(select_task(learner.task), noises, useQs),
       inputs2 \in Batches(select_task(learner.task), noises2, useQs) :
          FitTaskOn(inputs, inputs2)

\* the end of one pass of the loop over i, lines 224-231; d: the time the pass took
FitStep(d) ==
    /\ frame.pc = "fit"
    /\ frame.j = cfg.meta_batch_size
    /\ LET o == optimizer_step(params, optimizer)
           m1 == [Cur EXCEPT !.params = o.params, !.optimizer = o.optimizer]
           t == now + d
           save == ShouldCheckpoint(frame.i, frame.steps, t, frame.checkpoint_time,
                                    frame.interval)
       IN /\ Set(m1)
          /\ now' = t
          /\ IF save THEN Saving(m1, frame.keep, t) ELSE NotSaving
          /\ frame' = IF frame.i + 1 = frame.steps THEN IdleFrame
                      ELSE [frame EXCEPT !.i = @ + 1, !.j = 0, !.log = <<>>,
                                         !.checkpoint_time = IF save THEN t ELSE @]
    /\ UNCHANGED <<cfg, call, work>>

Del ==
    /\ frame.pc = "idle"
    /\ err' = IF del_raises(cfg.is_temp, dir_exists) THEN "FileNotFoundError" ELSE "none"
    /\ dir_exists' = IF cfg.is_temp THEN FALSE ELSE dir_exists
    /\ files' = IF cfg.is_temp THEN NoFiles ELSE files
    /\ frame' = [IdleFrame EXCEPT !.pc = "deleted"]
    /\ Called("del", FALSE)
    /\ UNCHANGED <<cfg, params, learner, optimizer, task_optimizer, global_step, now,
                   saves, last_saved, saved_at, keeps, work>>

\* the environment removes the checkpoint directory
RmTree ==
    /\ frame.pc = "idle"
    /\ dir_exists
    /\ dir_exists' = FALSE
    /\ files' = NoFiles
    /\ UNCHANGED <<cfg, params, learner, optimizer, task_optimizer, global_step, now,
                   frame, err, call, saves, last_saved, saved_at, keeps, work>>

----------------------------------------------------------------------------
\* Spec: save_checkpoint, restore, train_on_current_task and fit on one learner.

Init == InitWith(Configs({Rat(1, 10)}, {1}, {1}, {TRUE}), {0})

Next ==
    \/ saves < MaxSaves /\ SaveCheckpoint(MaxKeep)
    \/ Restore
    \/ \E n \in 0 .. MaxTrainSteps, r \in BOOLEAN :
          work + n <= MaxWork /\ TrainOnCurrentTask(n, r, {0}, {TRUE})
    \/ \E steps \in 0 .. MaxFitSteps, r \in BOOLEAN :
          /\ work + steps * cfg.meta_batch_size <= MaxWork
          /\ saves + steps <= MaxSaves
          /\ FitBegin(steps, MaxKeep, 1, r)
    \/ FitTask({0}, {0}, {TRUE})
    \/ FitStep(0)

Spec == Init /\ [][Next]_vars

----------------------------------------------------------------------------
\* SpecMeta: the meta-training loop alone, over every batch.

InitMeta == InitWith(Configs({Rat(1, 10)}, {1, 2}, 1 .. MaxMetaBatch, {TRUE}), {0, 3})

NextMeta ==
    \/ \E steps \in 1 .. MaxFitSteps : work < MaxWork /\ FitBegin(steps, 1, 1, FALSE)
    \/ work < MaxWork /\ FitTask({0}, {0, 1}, BOOLEAN)
    \/ FitStep(0)

SpecMeta == InitMeta /\ [][NextMeta]_vars

----------------------------------------------------------------------------
\* SpecFit: fit alone, with the clock.

NextFit ==
    \/ \E steps \in 0 .. MaxFitSteps, interval \in 1 .. MaxInterval, r \in BOOLEAN :
          work + steps <= MaxWork /\ FitBegin(steps, MaxKeep, interval, r)
    \/ FitTask({0}, {0}, {TRUE})
    \/ \E d \in 0 .. MaxInterval : now + d <= MaxNow /\ FitStep(d)

SpecFit == Init /\ [][NextFit]_vars

----------------------------------------------------------------------------
\* SpecRot: the checkpoint store alone, up to a two-digit slot number.

NextRot ==
    \/ /\ saves < MaxKeepRot + ExtraSavesRot
       /\ \E keep \in {1, MaxKeepRot} : SaveCheckpoint(keep)
    \/ Restore

SpecRot == Init /\ [][NextRot]_vars

----------------------------------------------------------------------------
\* SpecDel: the checkpoint directory's life, to teardown.

InitDel == InitWith(Configs({Rat(1, 10)}, {1}, {1}, BOOLEAN), {0})

NextDel ==
    \/ saves < MaxSaves /\ \E keep \in 1 .. MaxKeep : SaveCheckpoint(keep)
    \/ Restore
    \/ RmTree
    \/ Del

SpecDel == InitDel /\ [][NextDel]_vars

----------------------------------------------------------------------------
\* SpecRing: saves into one directory with every mix of max_checkpoints_to_keep.

NextRing ==
    \/ saves < MaxSavesRing /\ \E keep \in 1 .. MaxKeepRing : SaveCheckpoint(keep)
    \/ Restore

SpecRing == Init /\ [][NextRing]_vars

----------------------------------------------------------------------------
\* SpecCrash: completed saves, then one save that is interrupted, then restore.

NextCrash ==
    \/ /\ saves < MaxKeepRot
       /\ TempName \notin DOMAIN files
       /\ \E keep \in {2, MaxKeepRot} : SaveCheckpoint(keep)
    \/ /\ TempName \notin DOMAIN files
       /\ \E keep \in {2, MaxKeepRot}, n \in 1 .. MaxKeepRot + 1 : SaveInterrupted(keep, n)
    \/ Restore

SpecCrash == Init /\ [][NextCrash]_vars

----------------------------------------------------------------------------
\* The reference the gradient claims are stated against: the derivative of the
\* meta-loss (p_n - t_B)^2 with respect to p, where p_0 = p and
\* p_(k+1) = p_k - lr * 2 * (p_k - t_A), so that d p_(k+1) / d p_k = 1 - 2 * lr.

RECURSIVE Adapted(_, _, _, _)
Adapted(p, tA, lr, n) ==
    IF n = 0 THEN p
    ELSE LET q == Adapted(p, tA, lr, n - 1)
         IN RSub(q, RMul(lr, RMul(RInt(2), RSub(q, RInt(tA)))))

RECURSIVE RPow(_, _)
RPow(a, n) == IF n = 0 THEN RInt(1) ELSE RMul(a, RPow(a, n - 1))

ExactMetaGradient(p, tA, tB, lr, n) ==
    RMul(RMul(RInt(2), RSub(Adapted(p, tA, lr, n), RInt(tB))),
         RPow(RSub(RInt(1), RMul(RInt(2), lr)), n))

RECURSIVE SumExact(_, _, _, _)
SumExact(p, log, lr, n) ==
    IF log = <<>> THEN RInt(0)
    ELSE RAdd(SumExact(p, SubSeq(log, 1, Len(log) - 1), lr, n),
              ExactMetaGradient(p, log[Len(log)].inputs.t, log[Len(log)].inputs2.t, lr, n))

\* C1: with optimization_steps = 1, the meta-gradient that _compute_meta_loss returns
\* for the parameter p is the exact derivative of the second batch's loss at the adapted
\* parameter with respect to the original p, 2 (p' - t_B) (1 - 2 lr) where
\* p' = p - lr 2 (p - t_A).
C1_MetaGradientExact ==
    (frame.pc = "fit" /\ frame.j >= 1 /\ cfg.optimization_steps = 1)
    => frame.meta_gradients["p"] =
          ExactMetaGradient(params[frame.variables].val["p"],
                            frame.log[Len(frame.log)].inputs.t,
                            frame.log[Len(frame.log)].inputs2.t,
                            cfg.learning_rate, 1)

\* C2: when the outer optimizer is about to step, the gradient buffer of p holds the
\* sum of the meta-gradients of the tasks of this outer iteration, and nothing else.
C2_BufferIsSumOfMetaGradients ==
    (frame.pc = "fit" /\ frame.j = cfg.meta_batch_size)
    => params[0].grad["p"] =
          SumExact(params[frame.variables].val["p"], frame.log, cfg.learning_rate,
                   cfg.optimization_steps)

\* C8: an inner-loop step in which the gradient of q is absent after back-propagation
\* completes without an error, carries q unchanged into the adapted parameters and
\* updates p by its gradient.
C8_MissingGradientPassThrough ==
    [][\A inputs \in Batches(select_task(learner.task), {0}, BOOLEAN),
          inputs2 \in Batches(select_task(learner.task), {0, 1}, BOOLEAN) :
          LET ps1 == IF frame.j = 0 THEN zero_grad(params) ELSE params
              v == ps1[frame.variables]
              g == Accumulate(v.grad, LossGrad(v.val, inputs))
              r == compute_meta_loss(v, inputs, inputs2, 1, cfg.learning_rate)
          IN (FitTaskOn(inputs, inputs2) /\ cfg.optimization_steps = 1 /\ g["q"] = None)
             => /\ err' = "none"
                /\ r.updated["q"] = v.val["q"]
                /\ r.updated["p"] = RSub(v.val["p"], RMul(cfg.learning_rate, g["p"]))
      ]_vars

----------------------------------------------------------------------------
\* C3: a restore() that succeeds leaves the task-model state, both optimizer states
\* and the global step equal to what the latest save_checkpoint stored, whatever
\* training has changed since.
C3_RoundTrip ==
    [][(Restore /\ err' = "none") => CheckpointData(Cur)' = last_saved]_vars

\* a restore succeeded over a state that training had changed since the save
C3_Witness == call.name = "restore" /\ err = "none" /\ call.changed

\* C6: with no checkpoint file in the directory, restore(), fit(restore=True) and
\* train_on_current_task(restore=True) raise the 'No checkpoint found' ValueError and
\* change neither the model, nor an optimizer, nor the global step, and train nothing.
C6_RestoreAbsent ==
    [][(/\ dir_exists
        /\ Len(get_checkpoints(files)) = 0
        /\ \/ Restore
           \/ \E n \in 0 .. MaxTrainSteps : TrainOnCurrentTask(n, TRUE, {0}, {TRUE})
           \/ \E steps \in 0 .. MaxFitSteps : FitBegin(steps, MaxKeep, 1, TRUE))
       => /\ err' = "ValueError"
          /\ UNCHANGED <<params, learner, optimizer, task_optimizer, global_step>>
          /\ frame'.pc = "idle"
          /\ work' = work
      ]_vars

\* fit(restore=True) raised the error of the absent checkpoint
C6_Witness == call.name = "fit" /\ call.restore /\ err = "ValueError" /\ saves = 0

\* n steps of gradient descent with step size lr from vals, one batch each
RECURSIVE Descend(_, _, _)
Descend(vals, batches, lr) ==
    IF batches = <<>> THEN vals
    ELSE Descend([x \in Names |-> Update(vals[x], LossGrad(vals, Head(batches))[x], lr)],
                 Tail(batches), lr)

\* C7: after train_on_current_task(n, restore = r) the parameters the learner exposes
\* are n gradient-descent steps away from the parameters it exposed before (r false) or
\* from those of the latest checkpoint (r true).
C7_TrainChangesExposed ==
    [][\A n \in 0 .. MaxTrainSteps, r \in BOOLEAN :
          (TrainOnCurrentTask(n, r, {0}, {TRUE}) /\ err' = "none")
          => \E batches \in [1 .. n -> Batches(learner'.task, {0}, {TRUE})] :
                Exposed(Cur)' =
                   Descend(IF r THEN files[LastCheckpoint(files)].data.model_state_dict.val
                           ELSE Exposed(Cur),
                           batches, cfg.learning_rate)
      ]_vars

----------------------------------------------------------------------------
----------------------------------------------------------------------------
\* C10: teardown of an object whose directory is temporary removes the directory and
\* raises nothing, also when the directory is already gone.
C10_TeardownQuiet ==
    [][(Del /\ cfg.is_temp) => (~dir_exists' /\ err' = "none")]_vars

----------------------------------------------------------------------------
\* C4: after more than m saves, all with max_checkpoints_to_keep = m, into a directory
\* that was empty, the checkpoint files are exactly checkpoint1 .. checkpoint m, and
\* checkpoint1 is the file of the latest save.
C4_RotationBound ==
    \A m \in 1 .. MaxKeepRot :
        (keeps = {m} /\ saves >= m + 1)
        => /\ Range(get_checkpoints(files)) = {CheckpointName(k) : k \in 1 .. m}
           /\ Len(get_checkpoints(files)) = m
           /\ files[CheckpointName(1)].seq = saves
           /\ files[CheckpointName(1)].data = last_saved

\* more than MaxKeepRot saves were made, all keeping MaxKeepRot files
C4_Witness == keeps = {MaxKeepRot} /\ saves >= MaxKeepRot + 1

\* C5: after any completed saves, whatever their max_checkpoints_to_keep, the file
\* restore() selects, the first name of the sorted listing, is the file of the latest
\* save.
C5_RestoreSelectsNewest ==
    saves >= 1 =>
        /\ files[LastCheckpoint(files)].seq = saves
        /\ files[LastCheckpoint(files)].data = last_saved

\* a slot with a two-digit number exists and restore() has loaded a file
C5_Witness ==
    /\ CheckpointName(MaxKeepRot) \in DOMAIN files
    /\ Len(Digits(MaxKeepRot)) >= 2
    /\ call.name = "restore"
    /\ err = "none"

----------------------------------------------------------------------------
\* C11: of two checkpoints saved by the same object, the one saved after more outer
\* iterations of fit records the strictly larger global_step: a save made at the end of
\* an outer iteration stores a larger global_step than the save before it.
C11_GlobalStepGrows ==
    [][(FitStep(0) /\ saves' = saves + 1 /\ last_saved # None)
       => last_saved'.global_step > last_saved.global_step]_vars

----------------------------------------------------------------------------
\* C12: after save_checkpoint(max_checkpoints_to_keep = m) returns, the directory
\* holds at most m checkpoint files, whatever values the earlier saves used.
C12_AtMostKeepFiles ==
    [][\A keep \in {1, MaxKeepRot} :
          SaveCheckpoint(keep) => Len(get_checkpoints(files')) <= keep]_vars

----------------------------------------------------------------------------
\* C13: for every optimization_steps = n >= 1, a call of _compute_meta_loss (here the
\* first of an outer iteration, on batches whose loss uses every parameter) completes,
\* having made n successive gradient-descent updates on the first batch, each from the
\* tensors the update before it produced, and one meta-loss evaluation on the second.
C13_InnerStepsComplete ==
    [][\A inputs \in Batches(select_task(learner.task), {0}, {TRUE}),
          inputs2 \in Batches(select_task(learner.task), {0, 1}, {TRUE}) :
          LET v == zero_grad(params)[frame.variables]
              r == compute_meta_loss(v, inputs, inputs2, cfg.optimization_steps,
                                     cfg.learning_rate)
          IN (FitTaskOn(inputs, inputs2) /\ frame.j = 0 /\ cfg.optimization_steps >= 1)
             => /\ err' = "none"
                /\ r.updated = Descend(v.val, [k \in 1 .. cfg.optimization_steps |-> inputs],
                                       cfg.learning_rate)
                /\ frame'.log = Append(frame.log, [inputs |-> inputs, inputs2 |-> inputs2])
      ]_vars

----------------------------------------------------------------------------
\* C14: during fit, select_task, get_batch and _compute_meta_loss leave the values of
\* every parameter tensor as they were: while the loop over the tasks of an outer
\* iteration is running, no step changes a value; the adapted parameters are values of
\* their own.
C14_ParamsChangeOnlyAtStep ==
    [][(frame.pc = "fit" /\ frame.j < cfg.meta_batch_size)
       => \A r \in {0, 1} : params'[r].val = params[r].val]_vars

\* a meta-loss was computed in this outer iteration at adapted parameters that differ
\* from the parameters themselves
C14_Witness ==
    /\ frame.pc = "fit"
    /\ frame.j >= 1
    /\ Descend(params[frame.variables].val, <<frame.log[1].inputs>>, cfg.learning_rate)
          # params[frame.variables].val

----------------------------------------------------------------------------
\* C15: after any sequence of fit, train_on_current_task, save_checkpoint and restore
\* calls, the tensor objects the outer optimizer and the task optimizer zero and update
\* are the objects the learner returns as its variables.
C15_OptimizersBoundToLearner == learner.ref = OptimizerRef

----------------------------------------------------------------------------
----------------------------------------------------------------------------
\* C17: when save_checkpoint is interrupted between two of its file operations,
\* get_checkpoints does not list the temporary file, and, with max_checkpoints_to_keep
\* >= 2 and a checkpoint in the directory before the save began, a restore() that
\* follows finds a checkpoint and loads the newest one that existed before the save,
\* or the new one.
C17_InterruptedRotation ==
    [][\A keep \in {2, MaxKeepRot}, n \in 1 .. MaxKeepRot + 1 :
          SaveInterrupted(keep, n) =>
             LET before == Range(get_checkpoints(files))
                 newest == CHOOSE f \in before : \A g \in before : files[g].seq <= files[f].seq
                 m == restore(Cur, files', dir_exists')
             IN /\ TempName \notin Range(get_checkpoints(files'))
                /\ before # {} =>
                      /\ m.err = "none"
                      /\ files'[LastCheckpoint(files')].seq \in {files[newest].seq, saves + 1}
      ]_vars

====
